---- MODULE Spec2Model ----
(***************************************************************************)
(* Activation server (activation_server1.py): one-time, hardware-bound    *)
(* activation codes kept in two SQLite tables, pending and activations.    *)
(*                                                                         *)
(* Strings are sequences of one-character strings, so that strip(),        *)
(* slicing and concatenation are computed as the code computes them.       *)
(* Every request handler runs on its own thread with its own connection;   *)
(* a handler is a sequence of steps, one per statement that touches the    *)
(* shared database or the clock.  Writes are buffered in the connection's  *)
(* open transaction and reach the database file at commit.                 *)
(* A write statement waits for SQLite's write lock; the busy timeout after *)
(* which sqlite3 would raise "database is locked" is left out.             *)
(***************************************************************************)
EXTENDS Integers, Sequences, FiniteSets, TLC

VARIABLES
    db,      \* the committed content of activations.db: [pending, activations]
    lock,    \* the thread whose connection holds SQLite's write lock, or NoProc
    now,     \* int(time.time())
    ticks,   \* how many times the clock has advanced
    calls,   \* how many requests the server has accepted
    th,      \* per handler thread: its position and local variables
    hist,    \* history of a client that sends one request at a time
    lic      \* a run of make_license.py

vars == <<db, lock, now, ticks, calls, th, hist, lic>>

----------------------------------------------------------------------------
(* Bounds of the model *)

MaxTicks == 1
MaxCalls == 4

----------------------------------------------------------------------------
(* Configuration *)

CODE_LENGTH == 12

CODE_TTL_SECONDS == 60 * 60 * 24

alphabet ==
    { "A","B","C","D","E","F","G","H","J","K","L","M","N","P","Q","R",
      "S","T","U","V","W","X","Y","Z","2","3","4","5","6","7","8","9" }

----------------------------------------------------------------------------
(* Strings *)

Whitespace == { " " }

RECURSIVE lstrip(_)
lstrip(s) ==
    IF s # <<>> /\ Head(s) \in Whitespace THEN lstrip(Tail(s)) ELSE s

RECURSIVE rstrip(_)
rstrip(s) ==
    IF s # <<>> /\ s[Len(s)] \in Whitespace
    THEN rstrip(SubSeq(s, 1, Len(s) - 1))
    ELSE s

\* strip() leaving the string as it is
strip_nothing(s) == s

\* str.strip()
strip(s) == rstrip(lstrip(s))

\* s[:n]
Prefix(s, n) == IF Len(s) <= n THEN s ELSE SubSeq(s, 1, n)

\* sha256 is one-way and collision free: the digest of s is a value from
\* which only equality with another digest can be computed.
sha256_hex(s) == [sha256 |-> s]

----------------------------------------------------------------------------
(* Inputs *)

HW1 == << "H","W","-","1" >>
HW2 == << "H","W","-","2" >>

\* hwid values a client may send (the second is trimmed to nothing, the
\* third to HW-1)
RawHwids == { <<>>, << " " >>, << " " >> \o HW1, HW2 }

Hwids == { strip(h) : h \in RawHwids } \ { <<>> }

CodeA == << "A","B","C","D","2","3","4","5","E","F","G","H" >>
CodeB == << "A","B","C","D","9","8","7","6","Z","Y","X","W" >>

\* the codes secrets.choice() draws in this model
CodeSample == { CodeA, CodeB }

\* activation_code values a client may send
RawCodes == { <<>>, CodeA, CodeB \o << " " >> }

Laptop == << "L","a","p","t","o","p" >>

RawNames == { << " " >> \o Laptop }

NoBody == [nobody |-> TRUE]

RequestBodies ==
    { NoBody } \cup [ hwid : RawHwids, device_name : RawNames ]

VerifyBodies ==
    { NoBody } \cup
    [ hwid : RawHwids, activation_code : RawCodes, device_name : RawNames ]

----------------------------------------------------------------------------
(* The store *)

Procs == { "t1", "t2" }

NoProc == "none"

NoRow == [absent |-> TRUE]

\* init_db(): both tables exist, keyed by hwid
init_db ==
    [ pending     |-> [h \in Hwids |-> NoRow],
      activations |-> [h \in Hwids |-> NoRow] ]

\* ApplyStmt with DELETE FROM pending deleting nothing
ApplyStmtNoDelete(d, s) ==
    CASE s.sql = "REPLACE INTO pending" ->
           [d EXCEPT !.pending[s.hwid] = s.row]
      [] s.sql = "DELETE FROM pending" -> d
      [] s.sql = "REPLACE INTO activations" ->
           [d EXCEPT !.activations[s.hwid] = s.row]

\* ApplyStmt with INSERT OR IGNORE INTO pending in the place of REPLACE
ApplyStmtInsertOrIgnore(d, s) ==
    CASE s.sql = "REPLACE INTO pending" ->
           IF d.pending[s.hwid] = NoRow
           THEN [d EXCEPT !.pending[s.hwid] = s.row]
           ELSE d
      [] s.sql = "DELETE FROM pending" ->
           [d EXCEPT !.pending[s.hwid] = NoRow]
      [] s.sql = "REPLACE INTO activations" ->
           [d EXCEPT !.activations[s.hwid] = s.row]

\* ApplyStmt with a new request resetting the device: REPLACE INTO pending
\* followed by DELETE FROM activations for the hwid
ApplyStmtResetOnRequest(d, s) ==
    CASE s.sql = "REPLACE INTO pending" ->
           [d EXCEPT !.pending[s.hwid] = s.row,
                     !.activations[s.hwid] = NoRow]
      [] s.sql = "DELETE FROM pending" ->
           [d EXCEPT !.pending[s.hwid] = NoRow]
      [] s.sql = "REPLACE INTO activations" ->
           [d EXCEPT !.activations[s.hwid] = s.row]

\* ApplyStmt with DELETE FROM pending lacking its WHERE hwid=?
ApplyStmtDeleteAll(d, s) ==
    CASE s.sql = "REPLACE INTO pending" ->
           [d EXCEPT !.pending[s.hwid] = s.row]
      [] s.sql = "DELETE FROM pending" ->
           [d EXCEPT !.pending = [h \in DOMAIN d.pending |-> NoRow]]
      [] s.sql = "REPLACE INTO activations" ->
           [d EXCEPT !.activations[s.hwid] = s.row]

\* One write statement applied to the tables.  REPLACE INTO on a table
\* whose primary key is hwid overwrites the hwid's row.
ApplyStmt(d, s) ==
    CASE s.sql = "REPLACE INTO pending" ->
           [d EXCEPT !.pending[s.hwid] = s.row]
      [] s.sql = "DELETE FROM pending" ->
           [d EXCEPT !.pending[s.hwid] = NoRow]
      [] s.sql = "REPLACE INTO activations" ->
           [d EXCEPT !.activations[s.hwid] = s.row]

RECURSIVE ApplyAll(_, _)
ApplyAll(d, tx) ==
    IF tx = <<>> THEN d ELSE ApplyAll(ApplyStmt(d, Head(tx)), Tail(tx))

\* Execute on a connection in autocommit mode (isolation_level=None)
ExecuteAutocommit(d, tx, s) == [ db |-> ApplyStmt(d, s), tx |-> tx ]

\* c.execute(<write>): sqlite3 opens a transaction before the first write
\* of a connection and keeps the statement's effect in it until commit.
\* Gives the database file and the connection's transaction afterwards.
Execute(d, tx, s) == [ db |-> d, tx |-> Append(tx, s) ]

\* conn.commit(): the open transaction reaches the database file as a whole
Commit(d, tx) == ApplyAll(d, tx)

----------------------------------------------------------------------------
(* Handler threads *)

NoResp == [status |-> 0]

NoMsg == [absent |-> TRUE]

Idle ==
    [ op |-> "none", pc |-> "idle", body |-> NoBody,
      hwid |-> <<>>, code |-> <<>>,
      device_name |-> <<>>, row |-> NoRow, stamp |-> 0, checked |-> 0,
      tx |-> <<>>, msg |-> NoMsg, sink |-> "none", resp |-> NoResp ]

Free(p) == th[p].pc \in { "idle", "done" }

\* return jsonify(...), status: the connection is closed and the answer is
\* with the client; what the handler was sent, read and sent stays on record
Done(t, r) ==
    [ t EXCEPT !.pc = "done", !.stamp = 0, !.tx = <<>>, !.resp = r ]

Respond(p, r) ==
    th' = [th EXCEPT ![p] = Done(th[p], r)]

Error(status, error) ==
    [ status |-> status, ok |-> FALSE, error |-> error ]

\* body.get(key, ''): a client may leave any key out
Field(body, key) == IF key \in DOMAIN body THEN body[key] ELSE <<>>

----------------------------------------------------------------------------
(* History, kept (keep = TRUE) for a client that sends one request at a   *)
(* time.  pre: the tables as its latest request found them.  prev: per    *)
(* hwid, the latest answered call for it before the current one.  latest, *)
(* issued: per hwid the code of the latest committed request, and all     *)
(* <<hwid, code>> ever committed.  expired: the <<hwid, code>> whose       *)
(* pending record was deleted as expired; dead: those of them not issued  *)
(* again since.                                                            *)

NoCall == [op |-> "none"]

NoCode == << "-" >>

NoHist ==
    [ pre     |-> init_db,
      prev    |-> [h \in Hwids |-> NoCall],
      latest  |-> [h \in Hwids |-> NoCode],
      issued  |-> {},
      expired |-> {},
      dead    |-> {} ]

Summary(t) ==
    [ op |-> t.op, hwid |-> t.hwid, code |-> t.code,
      status |-> t.resp.status ]

HistStart(keep, p) ==
    hist' = IF keep
            THEN [hist EXCEPT
                    !.pre = db,
                    !.prev = IF th[p].pc = "done" /\ th[p].hwid \in Hwids
                             THEN [@ EXCEPT ![th[p].hwid] = Summary(th[p])]
                             ELSE @]
            ELSE hist

HistIssue(keep, hwid, code) ==
    hist' = IF keep
            THEN [hist EXCEPT !.latest[hwid] = code,
                              !.issued = @ \cup { <<hwid, code>> },
                              !.dead = @ \ { <<hwid, code>> }]
            ELSE hist

HistExpire(keep, hwid, code_hash) ==
    LET gone == { <<hwid, c>> : c \in { x \in CodeSample :
                                          sha256_hex(x) = code_hash } }
    IN  hist' = IF keep
                THEN [hist EXCEPT !.expired = @ \cup gone,
                                  !.dead = @ \cup gone]
                ELSE hist

----------------------------------------------------------------------------

\* no file at the path
NoFile == [absent |-> TRUE]
\* a file that open(..., 'w') has created or truncated: no content yet
EmptyFile == [truncated |-> TRUE]

\* make_license.py not running: nothing read, computed or written
LicIdle ==
    [ pc |-> "idle", hwid |-> <<>>, days |-> 0, priv |-> 0,
      utc |-> [ day |-> 0, second |-> 0, microsecond |-> 0 ], moves |-> 0,
      read |-> <<>>,
      data |-> [ hwid |-> <<>>, issued |-> <<>>, expiry |-> <<>> ],
      raw |-> <<>>, signed |-> <<>>, salt |-> 0, sig |-> <<>>,
      payload |-> NoFile, before |-> NoFile, out |-> NoFile ]

Init ==
    /\ db = init_db
    /\ lock = NoProc
    /\ now = 0
    /\ ticks = 0
    /\ calls = 0
    /\ th = [p \in Procs |-> Idle]
    /\ hist = NoHist
    /\ lic = LicIdle

\* The clock advances; the two steps put a check exactly on and just past
\* the TTL of a record created before them.
Tick ==
    /\ ticks < MaxTicks
    /\ \E d \in { CODE_TTL_SECONDS, CODE_TTL_SECONDS + 1 } : now' = now + d
    /\ ticks' = ticks + 1
    /\ UNCHANGED <<lic, db, lock, calls, th, hist>>

----------------------------------------------------------------------------
(* Code generator and notification sink *)

\* generate_code(length): length characters, each drawn from the alphabet
\* by secrets.choice(); the model draws among the codes of CodeSample.
generate_code(length) ==
    { c \in CodeSample :
        Len(c) = length /\ \A i \in 1..Len(c) : c[i] \in alphabet }

BOT_TOKEN == << "8","4","0","5" >>

\* line 21: a deployment edits BOT_TOKEN at line 22 or leaves it empty and
\* exports BOT_TOKEN, or sets neither
BotTokens == { BOT_TOKEN, <<>> }

\* os.environ.get('BOT_TOKEN', '')
EnvTokens == { BOT_TOKEN, <<>> }

\* a or b, on strings
Or(a, b) == IF a # <<>> THEN a ELSE b

\* What the POST to the Telegram API may come to: HTTP 200 with ok true,
\* HTTP 200 without it, another status, or an exception (the timeout of
\* 10 s among them)
SinkOutcomes == { "ok", "not_ok", "http_error", "exception" }

\* send_telegram_message answering for the HTTP status alone
send_telegram_message_status_only(token, outcome) ==
    IF token = <<>> THEN FALSE ELSE outcome \in { "ok", "not_ok" }

\* send_telegram_message(token, chat_id, text), given what the POST came to
send_telegram_message(token, outcome) ==
    IF token = <<>> THEN FALSE ELSE outcome = "ok"

----------------------------------------------------------------------------
(* POST /request_activation *)

\* AlreadyActivated looking the hwid up in the wrong table
AlreadyActivatedInPending(d, hwid) == d.pending[hwid] # NoRow

\* lines 86-87: SELECT hwid FROM activations WHERE hwid=? finds a row
AlreadyActivated(d, hwid) == d.activations[hwid] # NoRow

\* lines 74-89: parse and validate the body, then look the hwid up in
\* activations
ReqStart(p, body, keep) ==
    /\ Free(p)
    /\ calls < MaxCalls
    /\ calls' = calls + 1
    /\ LET hwid == strip(Field(body, "hwid"))
           device_name == Prefix(strip(Field(body, "device_name")), 200)
           t == [Idle EXCEPT !.op = "request", !.body = body]
       IN  th' = [th EXCEPT ![p] =
                 IF body = NoBody
                 THEN Done(t, Error(400, "invalid_json"))
                 ELSE IF hwid = <<>>
                 THEN Done(t, Error(400, "missing_hwid"))
                 ELSE LET u == [t EXCEPT !.hwid = hwid,
                                         !.device_name = device_name]
                      IN  IF AlreadyActivated(db, hwid)
                          THEN Done(u, Error(409, "already_activated"))
                          ELSE [u EXCEPT !.pc = "r_generate"]]
    /\ HistStart(keep, p)
    /\ UNCHANGED <<lic, db, lock, now, ticks>>

\* lines 92-94: code = generate_code(); created = int(time.time())
ReqGenerate(p) ==
    /\ th[p].pc = "r_generate"
    /\ \E code \in generate_code(CODE_LENGTH) :
          th' = [th EXCEPT ![p].pc = "r_replace", ![p].code = code,
                           ![p].stamp = now]
    /\ UNCHANGED <<lic, db, lock, now, ticks, calls, hist>>

\* PendingRow with the code itself kept as the sample
PendingRowFullSample(code, device_name, created) ==
    [ code_hash         |-> sha256_hex(code),
      code_plain_sample |-> code,
      device_name       |-> device_name,
      created_at        |-> created ]

\* the row request_activation writes (lines 96-97)
PendingRow(code, device_name, created) ==
    [ code_hash         |-> sha256_hex(code),
      code_plain_sample |-> Prefix(code, 4) \o << ".", ".", "." >>,
      device_name       |-> device_name,
      created_at        |-> created ]

\* lines 96-97: REPLACE INTO pending ...; waits while another connection
\* holds the write lock
ReqReplace(p) ==
    /\ th[p].pc = "r_replace"
    /\ lock \in { NoProc, p }
    /\ LET e == Execute(db, th[p].tx,
                  [ sql  |-> "REPLACE INTO pending",
                    hwid |-> th[p].hwid,
                    row  |-> PendingRow(th[p].code, th[p].device_name,
                                        th[p].stamp) ])
       IN  /\ db' = e.db
           /\ th' = [th EXCEPT ![p].pc = "r_commit", ![p].tx = e.tx]
    /\ lock' = p
    /\ UNCHANGED <<lic, now, ticks, calls, hist>>

\* ReqCommit put off until the notification is sent: the transaction stays
\* open and the lock is kept
ReqCommitHoldLock(p, keep) ==
    /\ th[p].pc = "r_commit"
    /\ db' = db
    /\ lock' = p
    /\ th' = [th EXCEPT ![p].pc = "r_notify"]
    /\ HistIssue(keep, th[p].hwid, th[p].code)
    /\ UNCHANGED <<lic, now, ticks, calls>>

\* line 98: conn.commit(); conn.close()
ReqCommit(p, keep) ==
    /\ th[p].pc = "r_commit"
    /\ db' = Commit(db, th[p].tx)
    /\ lock' = NoProc
    /\ th' = [th EXCEPT ![p].pc = "r_notify", ![p].tx = <<>>]
    /\ HistIssue(keep, th[p].hwid, th[p].code)
    /\ UNCHANGED <<lic, now, ticks, calls>>

\* ReqNotify answering 502 when the notification was not delivered
ReqNotifyStrict(p) ==
    /\ th[p].pc = "r_notify"
    /\ \E bot \in BotTokens, env \in EnvTokens, outcome \in SinkOutcomes :
          LET token == Or(bot, env)
              msg == [ hwid |-> th[p].hwid,
                       device_name |-> th[p].device_name,
                       code |-> th[p].code,
                       created |-> th[p].stamp ]
              send_ok == send_telegram_message(token, outcome)
          IN  th' = [th EXCEPT ![p] =
                      Done([th[p] EXCEPT
                              !.msg = msg,
                              !.sink = IF token = <<>> THEN "unconfigured"
                                       ELSE outcome],
                           IF send_ok
                           THEN [ status |-> 200, ok |-> TRUE,
                                  sent_to_admin |-> send_ok ]
                           ELSE Error(502, "notification_failed"))]
    /\ UNCHANGED <<lic, db, lock, now, ticks, calls, hist>>

\* ReqNotify calling a sink that never answers with no timeout set: the
\* call does not return
ReqNotifyNoTimeout(p) ==
    /\ th[p].pc = "r_notify"
    /\ UNCHANGED vars

\* lines 101-106: send the code to the admin, then answer
ReqNotify(p) ==
    /\ th[p].pc = "r_notify"
    /\ \E bot \in BotTokens, env \in EnvTokens, outcome \in SinkOutcomes :
          LET token == Or(bot, env)
              msg == [ hwid |-> th[p].hwid,
                       device_name |-> th[p].device_name,
                       code |-> th[p].code,
                       created |-> th[p].stamp ]
              send_ok == send_telegram_message(token, outcome)
          IN  th' = [th EXCEPT ![p] =
                      Done([th[p] EXCEPT
                              !.msg = msg,
                              !.sink = IF token = <<>> THEN "unconfigured"
                                       ELSE outcome],
                           [ status |-> 200, ok |-> TRUE,
                             sent_to_admin |-> send_ok ])]
    /\ UNCHANGED <<lic, db, lock, now, ticks, calls, hist>>

request_activation(p, bodies, keep) ==
    \/ \E body \in bodies : ReqStart(p, body, keep)
    \/ ReqGenerate(p)
    \/ ReqReplace(p)
    \/ ReqCommit(p, keep)
    \/ ReqNotify(p)

----------------------------------------------------------------------------
(* POST /verify_activation *)

\* lines 110-127: parse and validate the body, then
\* SELECT code_hash, created_at FROM pending WHERE hwid=?
VerStart(p, body, keep) ==
    /\ Free(p)
    /\ calls < MaxCalls
    /\ calls' = calls + 1
    /\ LET hwid == strip(Field(body, "hwid"))
           code == strip(Field(body, "activation_code"))
           device_name == Prefix(strip(Field(body, "device_name")), 200)
           t == [Idle EXCEPT !.op = "verify", !.body = body]
       IN  th' = [th EXCEPT ![p] =
                 IF body = NoBody
                 THEN Done(t, Error(400, "invalid_json"))
                 ELSE IF hwid = <<>> \/ code = <<>>
                 THEN Done(t, Error(400, "missing_fields"))
                 ELSE LET u == [t EXCEPT !.hwid = hwid, !.code = code,
                                         !.device_name = device_name]
                          row == db.pending[hwid]
                      IN  IF row = NoRow
                          THEN Done(u, Error(404, "no_pending_request"))
                          ELSE [u EXCEPT !.pc = "v_check",
                                  !.row = [ code_hash  |-> row.code_hash,
                                            created_at |-> row.created_at ]]]
    /\ HistStart(keep, p)
    /\ UNCHANGED <<lic, db, lock, now, ticks>>

\* Expired with >= in the place of >
ExpiredAtTTL(t, created_at) == t - created_at >= CODE_TTL_SECONDS

\* line 129: int(time.time()) - int(created_at) > CODE_TTL_SECONDS
Expired(t, created_at) == t - created_at > CODE_TTL_SECONDS

\* WrongCode with == in the place of !=
WrongCodeInverted(code, code_hash_db) == sha256_hex(code) = code_hash_db

\* line 134: sha256_hex(code) != code_hash_db
WrongCode(code, code_hash_db) == sha256_hex(code) # code_hash_db

\* VerCheck with the hash check ahead of the TTL check
VerCheckHashFirst(p) ==
    /\ th[p].pc = "v_check"
    /\ IF WrongCode(th[p].code, th[p].row.code_hash)
       THEN th' = [th EXCEPT ![p] = Done([th[p] EXCEPT !.checked = now],
                                         Error(403, "invalid_code"))]
       ELSE IF Expired(now, th[p].row.created_at)
       THEN th' = [th EXCEPT ![p].pc = "v_expire", ![p].checked = now]
       ELSE th' = [th EXCEPT ![p].pc = "v_stamp", ![p].checked = now]
    /\ UNCHANGED <<lic, db, lock, now, ticks, calls, hist>>

\* lines 129-136: the TTL check, then the hash check
VerCheck(p) ==
    /\ th[p].pc = "v_check"
    /\ IF Expired(now, th[p].row.created_at)
       THEN th' = [th EXCEPT ![p].pc = "v_expire", ![p].checked = now]
       ELSE IF WrongCode(th[p].code, th[p].row.code_hash)
       THEN th' = [th EXCEPT ![p] = Done([th[p] EXCEPT !.checked = now],
                                         Error(403, "invalid_code"))]
       ELSE th' = [th EXCEPT ![p].pc = "v_stamp", ![p].checked = now]
    /\ UNCHANGED <<lic, db, lock, now, ticks, calls, hist>>

\* line 131: DELETE FROM pending WHERE hwid=?  (the expired record)
VerExpire(p) ==
    /\ th[p].pc = "v_expire"
    /\ lock \in { NoProc, p }
    /\ LET e == Execute(db, th[p].tx,
                  [ sql |-> "DELETE FROM pending", hwid |-> th[p].hwid ])
       IN  /\ db' = e.db
           /\ th' = [th EXCEPT ![p].pc = "v_expire_commit", ![p].tx = e.tx]
    /\ lock' = p
    /\ UNCHANGED <<lic, now, ticks, calls, hist>>

\* lines 131-132: conn.commit(); conn.close(); 410
VerExpireCommit(p, keep) ==
    /\ th[p].pc = "v_expire_commit"
    /\ db' = Commit(db, th[p].tx)
    /\ lock' = NoProc
    /\ Respond(p, Error(410, "code_expired"))
    /\ HistExpire(keep, th[p].hwid, th[p].row.code_hash)
    /\ UNCHANGED <<lic, now, ticks, calls>>

\* line 139: activated_at = int(time.time())
VerStamp(p) ==
    /\ th[p].pc = "v_stamp"
    /\ th' = [th EXCEPT ![p].pc = "v_replace", ![p].stamp = now]
    /\ UNCHANGED <<lic, db, lock, now, ticks, calls, hist>>

\* activation_hash of the code alone
activation_hash_of_code(code, hwid) == sha256_hex(code)

\* line 140: sha256_hex(code + '::' + hwid)
activation_hash(code, hwid) == sha256_hex(code \o << ":", ":" >> \o hwid)

\* the row verify_activation writes (lines 141-142)
ActivationRow(code, hwid, device_name, activated_at) ==
    [ activated_at         |-> activated_at,
      activation_code_hash |-> activation_hash(code, hwid),
      device_name          |-> device_name ]

\* VerReplace carrying over the device_name of the pending record
VerReplaceKeepsName(p) ==
    /\ th[p].pc = "v_replace"
    /\ lock \in { NoProc, p }
    /\ LET e == Execute(db, th[p].tx,
                  [ sql  |-> "REPLACE INTO activations",
                    hwid |-> th[p].hwid,
                    row  |-> ActivationRow(th[p].code, th[p].hwid,
                                           db.pending[th[p].hwid].device_name,
                                           th[p].stamp) ])
       IN  /\ db' = e.db
           /\ th' = [th EXCEPT ![p].pc = "v_delete", ![p].tx = e.tx]
    /\ lock' = p
    /\ UNCHANGED <<lic, now, ticks, calls, hist>>

\* lines 141-142: REPLACE INTO activations ...
VerReplace(p) ==
    /\ th[p].pc = "v_replace"
    /\ lock \in { NoProc, p }
    /\ LET e == Execute(db, th[p].tx,
                  [ sql  |-> "REPLACE INTO activations",
                    hwid |-> th[p].hwid,
                    row  |-> ActivationRow(th[p].code, th[p].hwid,
                                           th[p].device_name, th[p].stamp) ])
       IN  /\ db' = e.db
           /\ th' = [th EXCEPT ![p].pc = "v_delete", ![p].tx = e.tx]
    /\ lock' = p
    /\ UNCHANGED <<lic, now, ticks, calls, hist>>

\* line 143: DELETE FROM pending WHERE hwid=?  (same transaction)
VerDelete(p) ==
    /\ th[p].pc = "v_delete"
    /\ lock \in { NoProc, p }
    /\ LET e == Execute(db, th[p].tx,
                  [ sql |-> "DELETE FROM pending", hwid |-> th[p].hwid ])
       IN  /\ db' = e.db
           /\ th' = [th EXCEPT ![p].pc = "v_commit", ![p].tx = e.tx]
    /\ lock' = p
    /\ UNCHANGED <<lic, now, ticks, calls, hist>>

\* lines 144-146: conn.commit(); conn.close(); 200
VerCommit(p) ==
    /\ th[p].pc = "v_commit"
    /\ db' = Commit(db, th[p].tx)
    /\ lock' = NoProc
    /\ Respond(p, [ status |-> 200, ok |-> TRUE,
                    activated_at |-> th[p].stamp ])
    /\ UNCHANGED <<lic, now, ticks, calls, hist>>

verify_activation(p, bodies, keep) ==
    \/ \E body \in bodies : VerStart(p, body, keep)
    \/ VerCheck(p)
    \/ VerExpire(p)
    \/ VerExpireCommit(p, keep)
    \/ VerStamp(p)
    \/ VerReplace(p)
    \/ VerDelete(p)
    \/ VerCommit(p)

----------------------------------------------------------------------------
(* GET /admin/list_pending, GET /admin/list_activations *)

\* ORDER BY key ASC
OrderByAsc(table, key) ==
    LET present == { h \in DOMAIN table : table[h] # NoRow }
        n == Cardinality(present)
    IN  { s \in [1..n -> present] :
            \A i, j \in 1..n :
               i < j => s[i] # s[j] /\ table[s[i]][key] <= table[s[j]][key] }

\* SELECT ... ORDER BY key DESC: the hwids of the rows of the table in an
\* order in which key never increases; SQLite fixes no order among rows of
\* equal key
OrderByDesc(table, key) ==
    LET present == { h \in DOMAIN table : table[h] # NoRow }
        n == Cardinality(present)
    IN  { s \in [1..n -> present] :
            \A i, j \in 1..n :
               i < j => s[i] # s[j] /\ table[s[i]][key] >= table[s[j]][key] }

\* lines 155-156: one object per row of the pending listing
PendingOut(hwid, r) ==
    [ hwid |-> hwid, code_sample |-> r.code_plain_sample,
      device_name |-> r.device_name, created_at |-> r.created_at ]

\* lines 166-167: one object per row of the activations listing
ActivationOut(hwid, r) ==
    [ hwid |-> hwid, activated_at |-> r.activated_at,
      device_name |-> r.device_name ]

\* lines 149-157: SELECT ... FROM pending ORDER BY created_at DESC
admin_list_pending(p, keep) ==
    /\ Free(p)
    /\ calls < MaxCalls
    /\ calls' = calls + 1
    /\ \E s \in OrderByDesc(db.pending, "created_at") :
          th' = [th EXCEPT ![p] =
                   Done([Idle EXCEPT !.op = "list_pending"],
                        [ status |-> 200,
                          out |-> [i \in 1..Len(s) |->
                                     PendingOut(s[i], db.pending[s[i]])] ])]
    /\ HistStart(keep, p)
    /\ UNCHANGED <<lic, db, lock, now, ticks>>

\* lines 160-168: SELECT ... FROM activations ORDER BY activated_at DESC
admin_list_activations(p, keep) ==
    /\ Free(p)
    /\ calls < MaxCalls
    /\ calls' = calls + 1
    /\ \E s \in OrderByDesc(db.activations, "activated_at") :
          th' = [th EXCEPT ![p] =
                   Done([Idle EXCEPT !.op = "list_activations"],
                        [ status |-> 200,
                          out |-> [i \in 1..Len(s) |->
                                     ActivationOut(s[i],
                                                   db.activations[s[i]])] ])]
    /\ HistStart(keep, p)
    /\ UNCHANGED <<lic, db, lock, now, ticks>>

----------------------------------------------------------------------------
(* Specifications *)

\* The well-formed requests of one device, HW-1
OneDevice(bodies) ==
    { b \in bodies :
        /\ b # NoBody
        /\ strip(b.hwid) = HW1
        /\ "activation_code" \in DOMAIN b => strip(b.activation_code) # <<>> }

\* Flask serves each request on a thread of its own: the handlers' steps
\* interleave freely.  Two threads serve the requests of one device.
Next ==
    \/ \E p \in Procs : request_activation(p, OneDevice(RequestBodies), FALSE)
    \/ \E p \in Procs : verify_activation(p, OneDevice(VerifyBodies), FALSE)
    \/ \E p \in Procs : admin_list_pending(p, FALSE)
    \/ \E p \in Procs : admin_list_activations(p, FALSE)
    \/ Tick

Spec == Init /\ [][Next]_vars

\* One request at a time: a client that waits for each answer before it
\* sends the next request, well formed or not, for either device.
SeqNext ==
    \/ request_activation("t1", RequestBodies, TRUE)
    \/ verify_activation("t1", VerifyBodies, TRUE)
    \/ admin_list_pending("t1", TRUE)
    \/ admin_list_activations("t1", TRUE)
    \/ Tick

SeqSpec == Init /\ [][SeqNext]_vars

----------------------------------------------------------------------------
(* make_license.py: the script that issues a signed license file.  lic is  *)
(* the state of one run: its arguments, the wall clock it reads, its       *)
(* variables and the output file.  Text is a sequence of one-character     *)
(* strings, bytes are a sequence of numbers 0..255.                        *)

server == <<db, lock, now, ticks, calls, th, hist>>

Digits == << "0","1","2","3","4","5","6","7","8","9" >>

\* n in decimal, zero-padded to w digits
RECURSIVE Dec(_, _)
Dec(n, w) ==
    IF w = 0 THEN <<>> ELSE Dec(n \div 10, w - 1) \o << Digits[(n % 10) + 1] >>

\* the printable ASCII characters: code points 32..95 and 97..126
AsciiUpper ==
    <<
      " ", "!", "\"", "#", "$", "%", "&", "'", "(", ")", "*", "+", ",",
      "-", ".", "/", "0", "1", "2", "3", "4", "5", "6", "7", "8", "9",
      ":", ";", "<", "=", ">", "?", "@", "A", "B", "C", "D", "E", "F",
      "G", "H", "I", "J", "K", "L", "M", "N", "O", "P", "Q", "R", "S",
      "T", "U", "V", "W", "X", "Y", "Z", "[", "\\", "]", "^", "_"
    >>

AsciiLower ==
    <<
      "a", "b", "c", "d", "e", "f", "g", "h", "i", "j", "k", "l", "m",
      "n", "o", "p", "q", "r", "s", "t", "u", "v", "w", "x", "y", "z",
      "{", "|", "}", "~"
    >>

\* ord(c)
ord ==
    [ c \in { AsciiUpper[i] : i \in 1..Len(AsciiUpper) } |->
        31 + CHOOSE i \in 1..Len(AsciiUpper) : AsciiUpper[i] = c ]
    @@
    [ c \in { AsciiLower[i] : i \in 1..Len(AsciiLower) } |->
        96 + CHOOSE i \in 1..Len(AsciiLower) : AsciiLower[i] = c ]

\* the one character of the model outside ASCII
EAcute == "é"

codepoint(c) == IF c \in DOMAIN ord THEN ord[c] ELSE 233

\* str.encode('utf-8'): one byte below U+0080, two below U+0800; the
\* text is encoded half by half
RECURSIVE utf8_encode(_)
utf8_encode(text) ==
    IF text = <<>> THEN <<>>
    ELSE IF Len(text) = 1
    THEN LET cp == codepoint(text[1])
         IN  IF cp < 128 THEN << cp >>
             ELSE << 192 + (cp \div 64), 128 + (cp % 64) >>
    ELSE LET m == Len(text) \div 2
         IN  utf8_encode(SubSeq(text, 1, m))
             \o utf8_encode(SubSeq(text, m + 1, Len(text)))

B64Alphabet ==
    <<
      "A", "B", "C", "D", "E", "F", "G", "H", "I", "J", "K", "L", "M",
      "N", "O", "P", "Q", "R", "S", "T", "U", "V", "W", "X", "Y", "Z",
      "a", "b", "c", "d", "e", "f", "g", "h", "i", "j", "k", "l", "m",
      "n", "o", "p", "q", "r", "s", "t", "u", "v", "w", "x", "y", "z",
      "0", "1", "2", "3", "4", "5", "6", "7", "8", "9", "+", "/"
    >>

\* base64.b64encode(b).decode(): 3 bytes to 4 characters, padded with
\* "="; longer input is encoded in two parts, the first a multiple of 3
RECURSIVE b64encode(_)
b64encode(b) ==
    LET A(n) == B64Alphabet[(n % 64) + 1]
    IN  IF Len(b) = 0 THEN <<>>
        ELSE IF Len(b) = 1
        THEN LET n == b[1] * 65536
             IN  << A(n \div 262144), A(n \div 4096), "=", "=" >>
        ELSE IF Len(b) = 2
        THEN LET n == b[1] * 65536 + b[2] * 256
             IN  << A(n \div 262144), A(n \div 4096), A(n \div 64), "=" >>
        ELSE IF Len(b) = 3
        THEN LET n == b[1] * 65536 + b[2] * 256 + b[3]
             IN  << A(n \div 262144), A(n \div 4096), A(n \div 64), A(n) >>
        ELSE LET m == 3 * (((Len(b) \div 3) + 1) \div 2)
             IN  b64encode(SubSeq(b, 1, m))
                 \o b64encode(SubSeq(b, m + 1, Len(b)))

\* a naive datetime: the day (counted, the calendar is left out), the
\* second of the day and the microsecond
MicrosPerSecond == 1000000
SecondsPerDay == 86400

\* datetime + timedelta(days=n)
plus_days(dt, n) == [dt EXCEPT !.day = @ + n]

\* datetime.isoformat(): date "T" HH:MM:SS, and ".ffffff" unless the
\* microsecond is 0
isoformat(dt) ==
    Dec(dt.day, 6) \o << "T" >>
    \o Dec(dt.second \div 3600, 2) \o << ":" >>
    \o Dec((dt.second \div 60) % 60, 2) \o << ":" >>
    \o Dec(dt.second % 60, 2)
    \o ( IF dt.microsecond = 0 THEN <<>>
         ELSE << "." >> \o Dec(dt.microsecond, 6) )

\* json.dumps of a string: quotes and backslashes are escaped, a character
\* outside ASCII is escaped when ensure_ascii is set
RECURSIVE json_escape(_, _)
json_escape(text, ensure_ascii) ==
    IF text = <<>> THEN <<>>
    ELSE LET c == Head(text)
         IN  ( IF c = "\"" THEN << "\\", "\"" >>
               ELSE IF c = "\\" THEN << "\\", "\\" >>
               ELSE IF codepoint(c) >= 128 /\ ensure_ascii
               THEN << "\\", "u", "0", "0", "e", "9" >>
               ELSE << c >> )
             \o json_escape(Tail(text), ensure_ascii)

json_str(text, ensure_ascii) ==
    << "\"" >> \o json_escape(text, ensure_ascii) \o << "\"" >>

\* json.dumps(data, ensure_ascii=...) of the dict of lines 16-21, keys in
\* the order of insertion, separators ", " and ": "
json_dumps(data, ensure_ascii) ==
    << "{","\"","h","w","i","d","\"",":"," " >> \o json_str(data.hwid, ensure_ascii)
    \o << ","," ","\"","i","s","s","u","e","d","\"",":"," " >> \o json_str(data.issued, ensure_ascii)
    \o << ","," ","\"","e","x","p","i","r","y","\"",":"," " >> \o json_str(data.expiry, ensure_ascii)
    \o << ","," ","\"","f","e","a","t","u","r","e","s","\"",":"," ","[","\"","f","u","l","l","\"","]","}" >>

\* priv.sign(raw, PSS(...), SHA256()): the signature bytes, standing for
\* a value that the key, the salt PSS draws and the signed bytes determine;
\* the salt shows in more than one byte of it, as two signatures of the
\* same bytes never differ in a single byte
Sign(priv, raw, salt) == << priv, salt, 255 - salt >> \o raw

\* arguments of a run (lines 9-14)
LicHwids == { <<>>, HW1, << "H", EAcute, "\"" >> }
LicDays == { 0, 1, 365 }
PrivateKey == 7
\* a key that loads and that sign(raw, PSS, SHA256) raises on: a key of
\* another kind, or an RSA key too short for the padding
UnfitKey == 3
\* what open(args.priv) and load_pem_private_key come to; 0 when either
\* raises
KeyFiles == { PrivateKey, UnfitKey, 0 }
\* what is at args.out when the run starts: nothing, or an earlier license
OldFile == [ data |-> << "e", "3", "0", "=" >>, sig |-> << "B", "w", "=", "=" >> ]
OutFiles == { NoFile, OldFile }
Salts == { 1, 2 }
\* the clock when the run starts
Clocks ==
    { [ day |-> 20394, second |-> 0, microsecond |-> 0 ],
      [ day |-> 20394, second |-> SecondsPerDay - 1,
        microsecond |-> MicrosPerSecond - 1 ] }

MaxLicTicks == 2

\* the clock moves on by a microsecond
LicTick ==
    /\ lic.pc \notin { "idle", "done", "failed" }
    /\ lic.moves < MaxLicTicks
    /\ LET t == lic.utc
           u == IF t.microsecond + 1 < MicrosPerSecond
                THEN [t EXCEPT !.microsecond = @ + 1]
                ELSE IF t.second + 1 < SecondsPerDay
                THEN [t EXCEPT !.microsecond = 0, !.second = @ + 1]
                ELSE [ day |-> t.day + 1, second |-> 0, microsecond |-> 0 ]
       IN  lic' = [lic EXCEPT !.utc = u, !.moves = @ + 1]
    /\ UNCHANGED server

\* line 17-18: "hwid": args.hwid, "issued": datetime.utcnow().isoformat()
LicIssued ==
    /\ lic.pc = "issued"
    /\ lic' = [lic EXCEPT !.pc = "expiry",
                          !.read = Append(@, lic.utc),
                          !.data.hwid = lic.hwid,
                          !.data.issued = isoformat(lic.utc)]
    /\ UNCHANGED server

\* line 19: "expiry": (datetime.utcnow() + timedelta(days=args.days))
\*          .isoformat()
LicExpiry ==
    /\ lic.pc = "expiry"
    /\ lic' = [lic EXCEPT !.pc = "dumps",
                          !.read = Append(@, lic.utc),
                          !.data.expiry =
                             isoformat(plus_days(lic.utc, lic.days))]
    /\ UNCHANGED server

\* line 23: raw = json.dumps(data, ensure_ascii=False).encode('utf-8')
LicDumps ==
    /\ lic.pc = "dumps"
    /\ lic' = [lic EXCEPT !.pc = "key",
                          !.raw = utf8_encode(json_dumps(lic.data, FALSE))]
    /\ UNCHANGED server

\* LicLoadKey reached with the output file already opened for writing
LicLoadKeyAfterOpen ==
    /\ lic.pc = "key"
    /\ lic' = [lic EXCEPT !.pc = IF lic.priv = 0 THEN "failed" ELSE "sign",
                          !.out = EmptyFile]
    /\ UNCHANGED server

\* lines 25-26: open the key file and load the key; either raises when the
\* file is missing or is no PEM key, and the script ends
LicLoadKey ==
    /\ lic.pc = "key"
    /\ lic' = [lic EXCEPT !.pc = IF lic.priv = 0 THEN "failed" ELSE "sign"]
    /\ UNCHANGED server

\* lines 28-32: sig = priv.sign(raw, PSS, SHA256); it raises on a key
\* that cannot make the signature, and the script ends
LicSign ==
    /\ lic.pc = "sign"
    /\ IF lic.priv = UnfitKey
       THEN lic' = [lic EXCEPT !.pc = "failed", !.signed = lic.raw]
       ELSE \E salt \in Salts :
               lic' = [lic EXCEPT !.pc = "payload",
                                  !.signed = lic.raw,
                                  !.salt = salt,
                                  !.sig = Sign(lic.priv, lic.raw, salt)]
    /\ UNCHANGED server

\* EmitData serializing the dict again, with json.dumps's defaults
EmitDataAgain(raw, data) == b64encode(utf8_encode(json_dumps(data, TRUE)))

\* line 35: "data": base64.b64encode(raw).decode()
EmitData(raw, data) == b64encode(raw)

\* lines 34-37: payload = { "data": ..., "sig": ... }
LicPayload ==
    /\ lic.pc = "payload"
    /\ lic' = [lic EXCEPT !.pc = "write",
                          !.payload = [ data |-> EmitData(lic.raw, lic.data),
                                        sig  |-> b64encode(lic.sig) ]]
    /\ UNCHANGED server

\* line 39: open(args.out, 'w', ...) creates the file, or empties the one
\* that is there
LicOpen ==
    /\ lic.pc = "write"
    /\ lic' = [lic EXCEPT !.pc = "dump", !.out = EmptyFile]
    /\ UNCHANGED server

\* lines 40-42: json.dump(payload, f, ...) fills the buffer of f, and
\* leaving the with block writes it out and closes the file
LicWrite ==
    /\ lic.pc = "dump"
    /\ lic' = [lic EXCEPT !.pc = "done", !.out = lic.payload]
    /\ UNCHANGED server

\* a run of the script, its arguments parsed (line 14)
LicInit ==
    /\ db = init_db
    /\ lock = NoProc
    /\ now = 0
    /\ ticks = 0
    /\ calls = 0
    /\ th = [p \in Procs |-> Idle]
    /\ hist = NoHist
    /\ lic \in { [LicIdle EXCEPT !.pc = "issued", !.hwid = h, !.days = d,
                                 !.priv = k, !.utc = t,
                                 !.before = f, !.out = f] :
                   h \in LicHwids, d \in LicDays, k \in KeyFiles,
                   t \in Clocks, f \in OutFiles }

LicNext ==
    \/ LicTick
    \/ LicIssued
    \/ LicExpiry
    \/ LicDumps
    \/ LicLoadKey
    \/ LicSign
    \/ LicPayload
    \/ LicOpen
    \/ LicWrite

LicSpec == LicInit /\ [][LicNext]_vars

----------------------------------------------------------------------------
(* Claims about one request at a time (SeqSpec).  A thread at "done"      *)
(* holds the call just answered; hist.pre holds the tables as that call   *)
(* found them and db the tables as it left them.                          *)

Answered(p, op) ==
    th[p].pc = "done" /\ th[p].op = op /\ th[p].hwid \in Hwids

OK200(r) == r.status = 200 /\ r.ok

\* the handler made its TTL check no more than the TTL after created_at
InTime(t, row) == t.checked - row.created_at <= CODE_TTL_SECONDS

Activated(d, h) == d.pending[h] = NoRow /\ d.activations[h] # NoRow

(* C1: for a hwid with neither record request_activation answers ok:true
   and leaves a pending record holding the hash of the code it issued; a
   verify_activation presenting the code of the pending record, checked
   within the TTL, answers ok:true and leaves the hwid with an activation
   record and no pending record. *)
C1_RequestThenVerify ==
    \A p \in Procs :
      LET t == th[p]
          h == t.hwid
      IN  /\ ( /\ Answered(p, "request")
               /\ hist.pre.pending[h] = NoRow
               /\ hist.pre.activations[h] = NoRow )
             => /\ OK200(t.resp)
                /\ db.pending[h] # NoRow
                /\ db.pending[h].code_hash = sha256_hex(t.msg.code)
                /\ hist.latest[h] = t.msg.code
          /\ ( /\ Answered(p, "verify")
               /\ hist.pre.pending[h] # NoRow
               /\ t.code = hist.latest[h]
               /\ InTime(t, hist.pre.pending[h]) )
             => /\ OK200(t.resp)
                /\ Activated(db, h)

C1_Witness ==
    \E p \in Procs :
      /\ Answered(p, "verify")
      /\ OK200(th[p].resp)
      /\ calls = 2
      /\ hist.prev[th[p].hwid].op = "request"
      /\ hist.prev[th[p].hwid].status = 200
      /\ hist.prev[th[p].hwid].code = th[p].code
      /\ hist.pre.activations[th[p].hwid] = NoRow
      /\ Activated(db, th[p].hwid)

(* C2: once a code has been redeemed for a hwid (the hwid's activation
   record is the one that code produced), a verify_activation presenting
   the same code again answers 404 no_pending_request and leaves the
   tables, the activation record among them, as they were. *)
C2_SecondVerifyFails ==
    \A p \in Procs :
      LET t == th[p]
          h == t.hwid
      IN  ( /\ Answered(p, "verify")
            /\ hist.pre.activations[h] # NoRow
            /\ hist.pre.activations[h].activation_code_hash
                 = activation_hash(t.code, h) )
          => /\ t.resp = Error(404, "no_pending_request")
             /\ db = hist.pre

C2_Witness ==
    \E p \in Procs :
      /\ Answered(p, "verify")
      /\ th[p].resp.status = 404
      /\ hist.prev[th[p].hwid] =
           [ op |-> "verify", hwid |-> th[p].hwid, code |-> th[p].code,
             status |-> 200 ]
      /\ db.activations[th[p].hwid] # NoRow

(* C4: request_activation for a hwid that has an activation record
   answers 409 already_activated, has generated no code and sent no
   notification, and leaves both tables as they were. *)
C4_AlreadyActivated ==
    \A p \in Procs :
      LET t == th[p]
          h == t.hwid
      IN  ( /\ Answered(p, "request")
            /\ hist.pre.activations[h] # NoRow )
          => /\ t.resp = Error(409, "already_activated")
             /\ t.code = <<>>
             /\ t.msg = NoMsg
             /\ db = hist.pre

C4_Witness ==
    \E p \in Procs :
      /\ Answered(p, "request")
      /\ th[p].resp.status = 409
      /\ hist.pre.activations[th[p].hwid] # NoRow

(* C5: a verify_activation whose code does not hash to the code_hash of
   an unexpired pending record answers 403 invalid_code and leaves the
   tables as they were; a verify_activation with the right code that
   follows such an attempt, checked within the TTL, succeeds. *)
C5_WrongCodeKeepsPending ==
    \A p \in Procs :
      LET t == th[p]
          h == t.hwid
          row == hist.pre.pending[h]
      IN  ( /\ Answered(p, "verify")
            /\ row # NoRow
            /\ InTime(t, row) )
          => /\ sha256_hex(t.code) # row.code_hash
                => /\ t.resp = Error(403, "invalid_code")
                   /\ db = hist.pre
             /\ ( /\ sha256_hex(t.code) = row.code_hash
                  /\ hist.prev[h].op = "verify"
                  /\ hist.prev[h].status = 403 )
                => /\ OK200(t.resp)
                   /\ Activated(db, h)

C5_Witness ==
    \E p \in Procs :
      /\ Answered(p, "verify")
      /\ OK200(th[p].resp)
      /\ hist.prev[th[p].hwid].op = "verify"
      /\ hist.prev[th[p].hwid].status = 403
      /\ hist.prev[th[p].hwid].code # th[p].code

(* C6: verify_activation with the right code succeeds when its TTL check
   is made at most CODE_TTL_SECONDS after created_at; made later, it
   answers 410 code_expired, deletes the pending record and writes no
   activation record. *)
C6_TTLBoundary ==
    \A p \in Procs :
      LET t == th[p]
          h == t.hwid
          row == hist.pre.pending[h]
      IN  ( /\ Answered(p, "verify")
            /\ row # NoRow
            /\ sha256_hex(t.code) = row.code_hash )
          => /\ t.checked - row.created_at <= CODE_TTL_SECONDS
                => /\ OK200(t.resp)
                   /\ Activated(db, h)
             /\ t.checked - row.created_at > CODE_TTL_SECONDS
                => /\ t.resp = Error(410, "code_expired")
                   /\ db = [hist.pre EXCEPT !.pending[h] = NoRow]

C6_Witness ==
    \E p \in Procs :
      LET row == hist.pre.pending[th[p].hwid]
      IN  /\ Answered(p, "verify")
          /\ row # NoRow
          /\ sha256_hex(th[p].code) = row.code_hash
          /\ th[p].checked - row.created_at = CODE_TTL_SECONDS + 1
          /\ th[p].resp.status = 410
          /\ db.pending[th[p].hwid] = NoRow

(* C7: when request_activation has issued several codes for a hwid, only
   the latest is redeemable: a verify_activation with an earlier code
   (another one than the latest) answers 403 invalid_code and changes
   nothing, and one with the latest code succeeds. *)
C7_OnlyLatestCode ==
    \A p \in Procs :
      LET t == th[p]
          h == t.hwid
          row == hist.pre.pending[h]
      IN  ( /\ Answered(p, "verify")
            /\ row # NoRow
            /\ InTime(t, row)
            /\ \E c \in CodeSample :
                  <<h, c>> \in hist.issued /\ c # hist.latest[h] )
          => /\ ( <<h, t.code>> \in hist.issued /\ t.code # hist.latest[h] )
                => /\ t.resp = Error(403, "invalid_code")
                   /\ db = hist.pre
             /\ t.code = hist.latest[h]
                => /\ OK200(t.resp)
                   /\ Activated(db, h)

C7_Witness ==
    \E p \in Procs :
      LET h == th[p].hwid
      IN  /\ Answered(p, "verify")
          /\ th[p].resp.status = 403
          /\ <<h, th[p].code>> \in hist.issued
          /\ th[p].code # hist.latest[h]
          /\ hist.prev[h].op = "request"
          /\ hist.prev[h].status = 200
          /\ hist.expired = {}
          /\ db.activations[h] = NoRow

(* C10 as claimed: once a verify_activation has answered 410 for a hwid,
   no verify_activation presenting the code of the deleted record
   succeeds for the hwid again; and a verify_activation that follows, for
   its hwid, a verify_activation answered 410 or 404 answers 404. *)
C10_ExpiredNeverRedeemed ==
    \A p \in Procs :
      LET t == th[p]
          h == t.hwid
      IN  Answered(p, "verify")
          => /\ OK200(t.resp) => <<h, t.code>> \notin hist.expired
             /\ ( /\ hist.prev[h].op = "verify"
                  /\ hist.prev[h].status \in { 410, 404 } )
                => /\ t.resp = Error(404, "no_pending_request")
                   /\ db = hist.pre

(* C10 amended: ... no verify_activation presenting the code of the
   deleted record succeeds for the hwid again unless request_activation
   has since issued that same code value for the hwid again; the second
   half as claimed. *)
C10_ExpiredCodeTerminal ==
    \A p \in Procs :
      LET t == th[p]
          h == t.hwid
      IN  Answered(p, "verify")
          => /\ OK200(t.resp) => <<h, t.code>> \notin hist.dead
             /\ ( /\ hist.prev[h].op = "verify"
                  /\ hist.prev[h].status \in { 410, 404 } )
                => /\ t.resp = Error(404, "no_pending_request")
                   /\ db = hist.pre

C10_Witness ==
    \E p \in Procs :
      /\ Answered(p, "verify")
      /\ <<th[p].hwid, th[p].code>> \in hist.dead
      /\ th[p].resp.status = 403
      /\ hist.prev[th[p].hwid].op = "request"

----------------------------------------------------------------------------
(* Claims about concurrent handlers (Spec) *)

(* C3: in every reachable state no hwid has both a pending record and an
   activation record. *)
C3_ExclusiveStates ==
    \A h \in Hwids : ~ ( db.pending[h] # NoRow /\ db.activations[h] # NoRow )

(* C8: the promotion reaches the database file in one step: neither
   statement of verify_activation's transaction changes the tables when
   it is executed, and the commit leaves the hwid with the activation
   record and without the pending record. *)
C8_PromotionAtomic ==
    [][ \A p \in Procs :
          LET h == th[p].hwid
          IN  /\ ( /\ th[p].pc \in { "v_replace", "v_delete" }
                   /\ th'[p].pc \in { "v_delete", "v_commit" }
                   /\ th'[p].pc # th[p].pc )
                 => db' = db
              /\ ( th[p].pc = "v_commit" /\ th'[p].pc = "done" )
                 => /\ Activated(db', h)
                    /\ db'.activations[h] =
                         ActivationRow(th[p].code, h, th[p].device_name,
                                       th'[p].resp.activated_at)
                    /\ \A g \in Hwids \ { h } :
                          /\ db'.pending[g] = db.pending[g]
                          /\ db'.activations[g] = db.activations[g]
      ]_vars

\* a promotion is executed and not committed, the tables still show the
\* pending record alone, and another handler has just read it
C8_Witness ==
    \E p, q \in Procs :
      /\ p # q
      /\ th[p].pc = "v_commit"
      /\ Len(th[p].tx) = 2
      /\ db.pending[th[p].hwid] # NoRow
      /\ db.activations[th[p].hwid] = NoRow
      /\ th[q].pc = "v_check"
      /\ th[q].hwid = th[p].hwid

(* C9: of two verify_activation calls that read the same pending record
   of a hwid, at most one answers success. *)
C9_ExactlyOneRedeems ==
    \A p, q \in Procs :
      ( /\ p # q
        /\ Answered(p, "verify")
        /\ Answered(q, "verify")
        /\ th[p].hwid = th[q].hwid
        /\ th[p].row # NoRow
        /\ th[p].row = th[q].row )
      => ~ ( OK200(th[p].resp) /\ OK200(th[q].resp) )

(* C11: activation is permanent: a hwid that has an activation record has
   one after every step of request_activation, verify_activation,
   list_pending and list_activations, on any thread. *)
C11_ActivationPermanent ==
    [][ \A h \in Hwids :
          db.activations[h] # NoRow => db'.activations[h] # NoRow ]_vars

\* an activated hwid on which a later request_activation has committed and
\* which a later list_activations still shows
C11_Witness ==
    \E p, q \in Procs :
      /\ p # q
      /\ th[p].pc = "done" /\ th[p].op = "request" /\ th[p].resp.status = 200
      /\ db.activations[th[p].hwid] # NoRow
      /\ db.pending[th[p].hwid] # NoRow
      /\ th[q].pc = "done" /\ th[q].op = "list_activations"
      /\ Len(th[q].resp.out) = 1
      /\ th[q].resp.out[1].hwid = th[p].hwid

----------------------------------------------------------------------------
(* Claims about the admin listings (SeqSpec) *)

(* C18: list_pending and list_activations answer with one object per
   record of their table, by descending created_at (pending) or
   activated_at (activations), and leave both tables as they were. *)
C18_ListingsReadOnly ==
    \A p \in Procs :
      LET t == th[p]
      IN  /\ ( t.pc = "done" /\ t.op = "list_pending" )
             => LET out == t.resp.out
                    present == { h \in Hwids : db.pending[h] # NoRow }
                IN  /\ db = hist.pre
                    /\ Len(out) = Cardinality(present)
                    /\ \A h \in present :
                         \E i \in 1..Len(out) :
                            out[i] =
                              [ hwid |-> h,
                                code_sample |->
                                  db.pending[h].code_plain_sample,
                                device_name |-> db.pending[h].device_name,
                                created_at |-> db.pending[h].created_at ]
                    /\ \A i, j \in 1..Len(out) :
                         i < j => out[i].created_at >= out[j].created_at
          /\ ( t.pc = "done" /\ t.op = "list_activations" )
             => LET out == t.resp.out
                    present == { h \in Hwids : db.activations[h] # NoRow }
                IN  /\ db = hist.pre
                    /\ Len(out) = Cardinality(present)
                    /\ \A h \in present :
                         \E i \in 1..Len(out) :
                            out[i] =
                              [ hwid |-> h,
                                activated_at |->
                                  db.activations[h].activated_at,
                                device_name |->
                                  db.activations[h].device_name ]
                    /\ \A i, j \in 1..Len(out) :
                         i < j => out[i].activated_at >= out[j].activated_at

C18_Witness ==
    \E p \in Procs :
      /\ th[p].pc = "done"
      /\ th[p].op = "list_pending"
      /\ Len(th[p].resp.out) = 2
      /\ th[p].resp.out[1].created_at > th[p].resp.out[2].created_at

----------------------------------------------------------------------------
(* Claims about the notification sink *)

\* what the sink's failure to deliver may have been
SinkFailures == { "unconfigured", "not_ok", "http_error", "exception" }

(* C12: the step in which the notification fails, on any thread, leaves
   the tables as they were and answers ok:true with sent_to_admin false;
   and a verify_activation that read the record such a request committed
   and presents its code within the TTL succeeds. *)
C12_DeliveryFailureKeepsCode ==
    /\ [][ \A p \in Procs :
             ( /\ th[p].pc = "r_notify"
               /\ th'[p].pc = "done"
               /\ th'[p].sink \in SinkFailures )
             => /\ db' = db
                /\ OK200(th'[p].resp)
                /\ th'[p].resp.sent_to_admin = FALSE ]_vars
    /\ [] ( \A p, q \in Procs :
              ( /\ p # q
                /\ Answered(p, "request")
                /\ th[p].sink \in SinkFailures
                /\ Answered(q, "verify")
                /\ th[q].hwid = th[p].hwid
                /\ th[q].code = th[p].code
                /\ th[q].row = [ code_hash  |-> sha256_hex(th[p].code),
                                 created_at |-> th[p].msg.created ]
                /\ th[q].checked - th[p].msg.created <= CODE_TTL_SECONDS )
              => /\ OK200(th[p].resp)
                 /\ OK200(th[q].resp)
                 /\ db.activations[th[q].hwid] # NoRow )

C12_Witness ==
    \E p, q \in Procs :
      /\ p # q
      /\ Answered(p, "request")
      /\ th[p].sink = "exception"
      /\ OK200(th[p].resp)
      /\ Answered(q, "verify")
      /\ th[q].code = th[p].code
      /\ th[q].row = [ code_hash  |-> sha256_hex(th[p].code),
                       created_at |-> th[p].msg.created ]
      /\ OK200(th[q].resp)
      /\ Activated(db, th[q].hwid)

(* C13: a request_activation answered 200 carries sent_to_admin true
   exactly when the sink answered HTTP 200 with ok true; it carries false
   when no token is configured, when the sink answers otherwise and when
   the call raises or times out. *)
C13_SentToAdmin ==
    \A p \in Procs :
      ( th[p].pc = "done" /\ th[p].op = "request"
        /\ th[p].resp.status = 200 )
      => /\ th[p].sink \in SinkFailures \cup { "ok" }
         /\ th[p].resp.sent_to_admin = (th[p].sink = "ok")

C13_Witness ==
    \E p \in Procs :
      /\ Answered(p, "request")
      /\ th[p].resp.status = 200
      /\ th[p].sink = "unconfigured"
      /\ th[p].resp.sent_to_admin = FALSE

(* C14: a request_activation that has not committed has sent nothing to
   the sink; when it is about to call the sink its transaction is
   committed and its connection holds no lock. *)
C14_NotifyOutsideTransaction ==
    \A p \in Procs :
      th[p].op = "request"
      => /\ th[p].pc \in { "r_generate", "r_replace", "r_commit" }
            => th[p].msg = NoMsg /\ th[p].sink = "none"
         /\ th[p].pc = "r_notify"
            => /\ th[p].msg = NoMsg /\ th[p].sink = "none"
               /\ th[p].tx = <<>>
               /\ lock # p

\* a notification is about to be sent while another handler holds the
\* write lock
C14_Witness ==
    \E p, q \in Procs :
      /\ p # q
      /\ th[p].pc = "r_notify"
      /\ lock = q
      /\ th[q].tx # <<>>

----------------------------------------------------------------------------
(* Claims about what the tables hold *)

(* C15: in every reachable state a pending record holds the digest of an
   issued code, a sample that is the code's first 4 characters followed by
   "...", the device name and created_at, and an activation record holds
   the digest of code::hwid, the device name and activated_at; no text
   field of either is a full code. *)
C15_PlaintextNotStored ==
    \A h \in Hwids :
      /\ db.pending[h] # NoRow
         => LET r == db.pending[h]
            IN  /\ DOMAIN r = { "code_hash", "code_plain_sample",
                                "device_name", "created_at" }
                /\ \E c \in CodeSample :
                      /\ r.code_hash = [sha256 |-> c]
                      /\ r.code_plain_sample =
                           SubSeq(c, 1, 4) \o << ".", ".", "." >>
                /\ r.code_plain_sample \notin CodeSample
                /\ r.device_name \notin CodeSample
                /\ r.created_at \in Nat
      /\ db.activations[h] # NoRow
         => LET r == db.activations[h]
            IN  /\ DOMAIN r = { "activated_at", "activation_code_hash",
                                "device_name" }
                /\ \E c \in CodeSample :
                      r.activation_code_hash =
                        [sha256 |-> c \o << ":", ":" >> \o h]
                /\ r.device_name \notin CodeSample
                /\ r.activated_at \in Nat

\* a request has sent the full code to the admin and committed its record
C15_Witness ==
    \E p \in Procs :
      /\ Answered(p, "request")
      /\ th[p].msg # NoMsg
      /\ th[p].msg.code = CodeB
      /\ db.pending[th[p].hwid] # NoRow
      /\ db.pending[th[p].hwid].code_hash = [sha256 |-> CodeB]
      /\ db.pending[th[p].hwid].code_plain_sample =
           << "A", "B", "C", "D", ".", ".", "." >>

\* the status the records of the hwid itself call for
C16_Status(op, code, checked, pend, act) ==
    IF op = "request"
    THEN IF act # NoRow THEN 409 ELSE 200
    ELSE IF pend = NoRow THEN 404
    ELSE IF checked - pend.created_at > CODE_TTL_SECONDS THEN 410
    ELSE IF [sha256 |-> code] # pend.code_hash THEN 403
    ELSE 200

(* C16: a request_activation or verify_activation for a hwid leaves the
   pending and activation records of every other hwid as they were, and
   its status is the one the records of its own hwid call for. *)
C16_HwidsIndependent ==
    \A p \in Procs :
      ( Answered(p, "request") \/ Answered(p, "verify") )
      => LET t == th[p]
             h == t.hwid
         IN  /\ \A g \in Hwids \ { h } :
                   /\ db.pending[g] = hist.pre.pending[g]
                   /\ db.activations[g] = hist.pre.activations[g]
             /\ t.resp.status =
                  C16_Status(t.op, t.code, t.checked,
                             hist.pre.pending[h], hist.pre.activations[h])

\* a hwid is activated while another hwid's pending record is in place,
\* and that record is still there
C16_Witness ==
    \E p \in Procs :
      /\ Answered(p, "verify")
      /\ OK200(th[p].resp)
      /\ \E g \in Hwids \ { th[p].hwid } :
            /\ hist.pre.pending[g] # NoRow
            /\ db.pending[g] = hist.pre.pending[g]

----------------------------------------------------------------------------
(* Claims about validation *)

\* nothing but whitespace
C17_Blank(x) == \A i \in 1..Len(x) : x[i] = " "

\* the handler has read no record, written nothing and sent nothing
C17_NothingDone(t) ==
    /\ db = hist.pre
    /\ t.row = NoRow
    /\ t.msg = NoMsg
    /\ t.sink = "none"

(* C17: a request_activation whose body carries a hwid that is empty
   after trimming answers 400 missing_hwid, and a verify_activation whose
   body carries a hwid or a code that is empty after trimming answers 400
   missing_fields; neither reads a record, changes a table or sends a
   notification. *)
C17_ValidationChangesNothing ==
    \A p \in Procs :
      LET t == th[p]
      IN  ( t.pc = "done" /\ t.body # NoBody )
          => /\ ( t.op = "request" /\ C17_Blank(t.body.hwid) )
                => /\ t.resp = [ status |-> 400, ok |-> FALSE,
                                 error |-> "missing_hwid" ]
                   /\ C17_NothingDone(t)
             /\ ( /\ t.op = "verify"
                  /\ ( C17_Blank(t.body.hwid)
                       \/ C17_Blank(t.body.activation_code) ) )
                => /\ t.resp = [ status |-> 400, ok |-> FALSE,
                                 error |-> "missing_fields" ]
                   /\ C17_NothingDone(t)

\* a request_activation with a hwid of one space is refused while another
\* hwid's record is pending
C17_Witness ==
    \E p \in Procs :
      /\ th[p].pc = "done"
      /\ th[p].op = "request"
      /\ th[p].body # NoBody
      /\ th[p].body.hwid = << " " >>
      /\ th[p].resp.status = 400
      /\ \E h \in Hwids : db.pending[h] # NoRow

----------------------------------------------------------------------------
(* Claims about make_license.py (LicSpec) *)

B64Index(c) == (CHOOSE i \in 1..Len(B64Alphabet) : B64Alphabet[i] = c) - 1

\* base64 decoding of padded text, 4 characters to at most 3 bytes
RECURSIVE B64Decode(_)
B64Decode(t) ==
    IF Len(t) = 0 THEN <<>>
    ELSE IF Len(t) = 4
    THEN LET hi == B64Index(t[1]) * 262144 + B64Index(t[2]) * 4096
         IN  IF t[3] = "=" THEN << hi \div 65536 >>
             ELSE IF t[4] = "="
             THEN LET n == hi + B64Index(t[3]) * 64
                  IN  << n \div 65536, (n \div 256) % 256 >>
             ELSE LET n == hi + B64Index(t[3]) * 64 + B64Index(t[4])
                  IN  << n \div 65536, (n \div 256) % 256, n % 256 >>
    ELSE LET m == 4 * (((Len(t) \div 4) + 1) \div 2)
         IN  B64Decode(SubSeq(t, 1, m)) \o B64Decode(SubSeq(t, m + 1, Len(t)))

(* C19: in a license file the script has written, the data field decodes
   to the very bytes that were passed to the signing operation, which are
   the bytes serialized at line 23, and the sig field decodes to the
   signature made of those bytes. *)
C19_SignedBytesAreEmitted ==
    lic.pc = "done"
    => /\ Len(lic.out.data) % 4 = 0
       /\ B64Decode(lic.out.data) = lic.signed
       /\ lic.signed = lic.raw
       /\ B64Decode(lic.out.sig) = lic.sig
       /\ lic.sig = Sign(lic.priv, lic.signed, lic.salt)

\* a license for a hwid with a character outside ASCII and a quote is
\* written
C19_Witness ==
    /\ lic.pc = "done"
    /\ lic.out = lic.payload
    /\ lic.hwid = << "H", EAcute, "\"" >>
    /\ lic.signed # <<>>

(* C20: once the payload's dates are set, expiry is the text of the
   instant read for issued plus exactly args.days days. *)
C20_ExpiryIsIssuedPlusDays ==
    lic.pc \notin { "idle", "issued", "expiry" }
    => /\ lic.data.issued = isoformat(lic.read[1])
       /\ lic.data.expiry =
            isoformat([ day |-> lic.read[1].day + lic.days,
                        second |-> lic.read[1].second,
                        microsecond |-> lic.read[1].microsecond ])

(* C21: until the key is loaded and the signature is made the file at
   args.out is what it was when the run started, absent or the earlier
   file; so it still is when the run ends on a key that is missing, is
   no key, or cannot sign. *)
C21_KeyFailureLeavesOutput ==
    /\ lic.pc \in { "issued", "expiry", "dumps", "key", "sign", "payload",
                    "write", "failed" }
       => lic.out = lic.before
    /\ lic.out # lic.before
       => /\ lic.priv = PrivateKey
          /\ lic.sig = Sign(lic.priv, lic.raw, lic.salt)

\* the signing raised while an earlier license was at args.out
C21_Witness ==
    /\ lic.pc = "failed"
    /\ lic.priv = UnfitKey
    /\ lic.signed # <<>>
    /\ lic.before = OldFile
    /\ lic.out = OldFile

(* C22: whoever reads args.out at any moment of a run finds what was
   there before the run or the whole new license. *)
C22_ArtifactAppearsWhole ==
    lic.pc # "idle"
    => \/ lic.out = lic.before
       \/ /\ lic.payload # NoFile
          /\ lic.out = lic.payload

----------------------------------------------------------------------------
(* The license verifier of section 4.4 of the specification. No file of
   src/ holds it; it is written here from the four steps of
   that section, over the file that make_license.py writes. *)

\* the character of a code point
chr(n) ==
    IF n \in 32..95 THEN AsciiUpper[n - 31]
    ELSE IF n \in 97..126 THEN AsciiLower[n - 96]
    ELSE IF n = 233 THEN EAcute
    ELSE "invalid"

\* bytes.decode('utf-8') of sequences of one and two bytes
utf8_decode(b) ==
    LET at == [ i \in 1..Len(b) |->
                  IF b[i] < 128 THEN chr(b[i])
                  ELSE IF b[i] >= 192 /\ i < Len(b)
                  THEN chr((b[i] - 192) * 64 + (b[i + 1] - 128))
                  ELSE "" ]
    IN  SelectSeq(at, LAMBDA c : c # "")

\* the number of backslashes that stand right before position i
Backslashes(text, i) ==
    CHOOSE k \in 0..(i - 1) :
       /\ \A j \in (i - k)..(i - 1) : text[j] = "\\"
       /\ k = i - 1 \/ text[i - k - 1] # "\\"

\* a JSON string's content with its escapes \" and \\ undone
json_unescape(text) ==
    LET at == [ i \in 1..Len(text) |->
                  IF text[i] = "\\" /\ Backslashes(text, i) % 2 = 0
                  THEN "" ELSE text[i] ]
    IN  SelectSeq(at, LAMBDA c : c # "")

Malformed == [ malformed |-> TRUE ]

\* json.loads of the payload: an object of strings under the keys hwid,
\* issued and expiry (and the list of features)
json_loads(text) ==
    LET Q == { i \in 1..Len(text) :
                 text[i] = "\"" /\ Backslashes(text, i) % 2 = 0 }
        nth(n) == CHOOSE i \in Q : Cardinality({ j \in Q : j < i }) = n - 1
        str(n) == json_unescape(SubSeq(text, nth(2 * n - 1) + 1,
                                       nth(2 * n) - 1))
    IN  IF /\ Cardinality(Q) = 16
           /\ str(1) = << "h", "w", "i", "d" >>
           /\ str(3) = << "i", "s", "s", "u", "e", "d" >>
           /\ str(5) = << "e", "x", "p", "i", "r", "y" >>
        THEN [ hwid |-> str(2), issued |-> str(4), expiry |-> str(6) ]
        ELSE Malformed

\* the number that decimal digits write
RECURSIVE Num(_)
Num(t) ==
    IF t = <<>> THEN 0
    ELSE 10 * Num(SubSeq(t, 1, Len(t) - 1))
         + (CHOOSE d \in 0..9 : Digits[d + 1] = t[Len(t)])

\* datetime.fromisoformat of a text that isoformat wrote
fromisoformat(t) ==
    [ day |-> Num(SubSeq(t, 1, 6)),
      second |-> Num(SubSeq(t, 8, 9)) * 3600 + Num(SubSeq(t, 11, 12)) * 60
                 + Num(SubSeq(t, 14, 15)),
      microsecond |-> IF Len(t) > 15 THEN Num(SubSeq(t, 17, 22)) ELSE 0 ]

\* instant a is earlier than instant b
Before(a, b) ==
    \/ a.day < b.day
    \/ a.day = b.day /\ a.second < b.second
    \/ a.day = b.day /\ a.second = b.second /\ a.microsecond < b.microsecond

\* the public key of the pair of PrivateKey
PublicKey == PrivateKey

\* step 2: the signature is one that the key of the pair makes of raw
VerifySignature(public_key, raw, sig) ==
    \E salt \in Salts : sig = Sign(public_key, raw, salt)

\* verify_license(artifact, public_key, observed_hwid), clock the time of
\* the check
verify_license(artifact, public_key, observed_hwid, clock) ==
    LET raw == B64Decode(artifact.data)
        sig == B64Decode(artifact.sig)
        payload == json_loads(utf8_decode(raw))
    IN  IF ~ VerifySignature(public_key, raw, sig)
        THEN [ error |-> "ForgedOrCorrupt" ]
        ELSE IF Before(fromisoformat(payload.expiry), clock)
        THEN [ error |-> "Expired" ]
        ELSE IF payload.hwid # <<>> /\ payload.hwid # observed_hwid
        THEN [ error |-> "HwidMismatch" ]
        ELSE [ valid |-> TRUE, payload |-> payload ]

\* the instant a microsecond after t
C23_After(t) ==
    IF t.microsecond + 1 < MicrosPerSecond
    THEN [t EXCEPT !.microsecond = @ + 1]
    ELSE IF t.second + 1 < SecondsPerDay
    THEN [t EXCEPT !.microsecond = 0, !.second = @ + 1]
    ELSE [ day |-> t.day + 1, second |-> 0, microsecond |-> 0 ]

\* the bytes b with the one at position i changed
C23_Altered(b, i, d) == [b EXCEPT ![i] = (@ + d) % 256]

\* positions of a sequence of n bytes: the first three, the middle, the last
C23_Positions(n) == { 1, 2, 3, (n + 1) \div 2, n }

(* C23: the license written for a hwid and a number of days verifies as
   valid, with the payload's hwid, under the matching public key and that
   hwid at any time up to issued + days; another observed hwid gives
   HwidMismatch; a byte of the payload or of the signature changed gives
   ForgedOrCorrupt; a clock past issued + days gives Expired. *)
C23_RoundTrip ==
    lic.pc = "done" /\ lic.hwid # <<>>
    => LET end == plus_days(lic.read[1], lic.days)
           raw == B64Decode(lic.out.data)
           sig == B64Decode(lic.out.sig)
       IN  /\ \A clock \in { lic.read[1], end } :
                /\ verify_license(lic.out, PublicKey, lic.hwid, clock)
                     = [ valid |-> TRUE, payload |-> lic.data ]
                /\ lic.data.hwid = lic.hwid
                /\ \A other \in LicHwids \ { lic.hwid } :
                      verify_license(lic.out, PublicKey, other, clock)
                        = [ error |-> "HwidMismatch" ]
           /\ \A clock \in { C23_After(end), plus_days(end, 1) } :
                verify_license(lic.out, PublicKey, lic.hwid, clock)
                  = [ error |-> "Expired" ]
           /\ \A d \in { 1, 128 } :
                /\ \A i \in C23_Positions(Len(raw)) :
                      verify_license(
                          [lic.out EXCEPT
                             !.data = b64encode(C23_Altered(raw, i, d))],
                          PublicKey, lic.hwid, lic.read[1])
                        = [ error |-> "ForgedOrCorrupt" ]
                /\ \A i \in C23_Positions(Len(sig)) :
                      verify_license(
                          [lic.out EXCEPT
                             !.sig = b64encode(C23_Altered(sig, i, d))],
                          PublicKey, lic.hwid, lic.read[1])
                        = [ error |-> "ForgedOrCorrupt" ]

----------------------------------------------------------------------------
(* Claims about handlers that interleave (Spec) and about the order of
   verify_activation's checks (SeqSpec) *)

(* C25: under any interleaving a hwid is activated at most once: from the
   moment it has an activation record no step changes that record, its
   activated_at and its activation hash included. *)
C25_ActivatedOnce ==
    [][ \A h \in Hwids :
          db.activations[h] # NoRow
          => db'.activations[h] = db.activations[h] ]_vars

\* the pending record of p's hwid is no longer the one p read
C26_Replaced(p) ==
    LET r == db.pending[th[p].hwid]
    IN  /\ r # NoRow
        /\ [ code_hash |-> r.code_hash, created_at |-> r.created_at ]
             # th[p].row

(* C26: the writes of verify_activation take effect only against the
   pending record it read: when a request_activation has replaced that
   record before verify_activation commits, on the success path or on the
   expiry path, the commit leaves the new pending record in place and
   activates nothing. *)
C26_WritesOnlyAgainstRecordRead ==
    [][ \A p \in Procs :
          ( /\ th[p].pc \in { "v_commit", "v_expire_commit" }
            /\ th'[p].pc = "done"
            /\ C26_Replaced(p) )
          => /\ db'.pending[th[p].hwid] = db.pending[th[p].hwid]
             /\ db'.activations[th[p].hwid] = db.activations[th[p].hwid]
      ]_vars

(* C27: verify_activation makes its checks in the order pending record,
   TTL, hash: with no pending record of the hwid it answers 404
   no_pending_request whatever the code and changes nothing; with a
   pending record past the TTL it answers 410 code_expired and deletes
   the record, also when the code is wrong; it answers 403 invalid_code
   only for a pending record within the TTL. *)
C27_ChecksInOrder ==
    \A p \in Procs :
      Answered(p, "verify")
      => LET t == th[p]
             h == t.hwid
             row == hist.pre.pending[h]
         IN  /\ row = NoRow
                => /\ t.resp = Error(404, "no_pending_request")
                   /\ db = hist.pre
             /\ ( /\ row # NoRow
                  /\ t.checked - row.created_at > CODE_TTL_SECONDS )
                => /\ t.resp = Error(410, "code_expired")
                   /\ db.pending[h] = NoRow
                   /\ db.activations = hist.pre.activations
             /\ t.resp = Error(403, "invalid_code")
                => /\ row # NoRow
                   /\ t.checked - row.created_at <= CODE_TTL_SECONDS
                   /\ sha256_hex(t.code) # row.code_hash

\* a wrong code presented for an expired pending record: 410, the record
\* deleted
C27_Witness ==
    \E p \in Procs :
      /\ Answered(p, "verify")
      /\ hist.pre.pending[th[p].hwid] # NoRow
      /\ sha256_hex(th[p].code) # hist.pre.pending[th[p].hwid].code_hash
      /\ th[p].resp = Error(410, "code_expired")
      /\ db.pending[th[p].hwid] = NoRow

(* C28: verify_activation for a hwid succeeds only on a code that hashes
   to the code_hash of that hwid's own pending record. A code issued for
   another hwid that is not this hwid's code fails, leaves the other
   hwid's records and this hwid's activation record as they were, and
   leaves this hwid's pending record as it was unless that record is past
   the TTL. The activation hash stored is the digest of the code, '::'
   and the hwid, so the records of two hwids never hold the same one. *)
C28_CodeBoundToHwid ==
    /\ \A p \in Procs :
         Answered(p, "verify")
         => LET t == th[p]
                h == t.hwid
                row == hist.pre.pending[h]
                own == row # NoRow /\ sha256_hex(t.code) = row.code_hash
            IN  /\ OK200(t.resp)
                   => /\ own
                      /\ db.activations[h].activation_code_hash
                           = sha256_hex(t.code \o << ":", ":" >> \o h)
                /\ ( /\ ~ own
                     /\ \E g \in Hwids \ { h } : <<g, t.code>> \in hist.issued )
                   => /\ ~ OK200(t.resp)
                      /\ db.activations = hist.pre.activations
                      /\ \A g \in Hwids \ { h } :
                            db.pending[g] = hist.pre.pending[g]
                      /\ ( row # NoRow /\ InTime(t, row) )
                         => db.pending[h] = row
                      /\ row = NoRow => db.pending[h] = NoRow
    /\ \A h, g \in Hwids :
         ( /\ h # g
           /\ db.activations[h] # NoRow
           /\ db.activations[g] # NoRow )
         => db.activations[h].activation_code_hash
              # db.activations[g].activation_code_hash

\* the code issued for another hwid is presented for a hwid whose pending
\* record holds a different code, and is refused
C28_Witness ==
    \E p \in Procs :
      /\ Answered(p, "verify")
      /\ th[p].resp = Error(403, "invalid_code")
      /\ \E g \in Hwids \ { th[p].hwid } :
            /\ <<g, th[p].code>> \in hist.issued
            /\ db.pending[g] # NoRow
            /\ sha256_hex(th[p].code) = db.pending[g].code_hash
      /\ db.pending[th[p].hwid] # NoRow
      /\ db = hist.pre

----------------------------------------------------------------------------
(* Termination of request_activation (FairSpec) *)

\* the steps of request_activation on thread p after its first
HandlerStep(p) ==
    \/ ReqGenerate(p)
    \/ ReqReplace(p)
    \/ ReqCommit(p, FALSE)
    \/ ReqNotify(p)

\* requests on two threads, for two devices, competing for the write lock
FairNext ==
    \E p \in Procs : request_activation(p, RequestBodies, FALSE)

\* A thread that serves a request runs its handler on: every statement
\* returns, the write statements once the write lock is free, and the
\* call of the sink within its timeout.
FairSpec ==
    /\ Init
    /\ [][FairNext]_vars
    /\ \A p \in Procs : WF_vars(HandlerStep(p))

(* C29: a request_activation that has found its hwid valid and not
   activated ends, answering 200 ok:true; when the sink gave no answer or
   failed, the answer carries sent_to_admin false. *)
C29_RequestTerminates ==
    \A p \in Procs :
      ( th[p].op = "request" /\ th[p].pc # "done" )
      ~> ( /\ th[p].op = "request"
           /\ th[p].pc = "done"
           /\ OK200(th[p].resp)
           /\ th[p].sink \in SinkFailures
              => th[p].resp.sent_to_admin = FALSE )

\* a request has ended with ok:true after the call of the sink raised (the
\* timeout), while the other thread is still inside a handler
C29_Witness ==
    \E p, q \in Procs :
      /\ p # q
      /\ Answered(p, "request")
      /\ OK200(th[p].resp)
      /\ th[p].sink = "exception"
      /\ th[p].resp.sent_to_admin = FALSE
      /\ th[q].pc \notin { "idle", "done" }

----------------------------------------------------------------------------
(* The device name of an activation record (NameSpec) *)

\* a device_name of 201 characters
LongName == [ i \in 1..201 |-> IF i = 201 THEN "y" ELSE "x" ]
Desk == << "D", "e", "s", "k" >>

NameRequestBodies ==
    [ hwid : { HW1 }, device_name : { << " " >> \o Laptop, LongName } ]

\* verify_activation bodies with no device_name and with one
NameVerifyBodies ==
    [ hwid : { HW1 }, activation_code : { CodeA, CodeB } ]
    \cup [ hwid : { HW1 }, activation_code : { CodeA, CodeB },
           device_name : { << " " >> \o Desk \o << " " >>, LongName } ]

NameNext ==
    \/ request_activation("t1", NameRequestBodies, TRUE)
    \/ verify_activation("t1", NameVerifyBodies, TRUE)
    \/ Tick

NameSpec == Init /\ [][NameNext]_vars

(* C30: the device_name of the activation record a verify_activation
   writes is the device_name of that request, trimmed and cut to 200
   characters, and empty when the request carries none; it is not taken
   from the pending record, whose device_name is gone with the record. *)
C30_DeviceNameFromVerify ==
    \A p \in Procs :
      ( Answered(p, "verify") /\ OK200(th[p].resp) )
      => LET body == th[p].body
             stored == db.activations[th[p].hwid].device_name
             sent == IF "device_name" \in DOMAIN body
                     THEN body.device_name ELSE <<>>
         IN  /\ stored = Prefix(strip(sent), 200)
             /\ Len(stored) <= 200
             /\ stored # <<>> => stored[1] # " "
             /\ "device_name" \notin DOMAIN body => stored = <<>>
             /\ db.pending[th[p].hwid] = NoRow
             /\ hist.pre.pending[th[p].hwid].device_name # Prefix(strip(sent), 200)
                => stored # hist.pre.pending[th[p].hwid].device_name

\* the pending record held one name, the verify_activation request sent a
\* name of 201 characters, and the activation record holds its first 200
C30_Witness ==
    \E p \in Procs :
      /\ Answered(p, "verify")
      /\ OK200(th[p].resp)
      /\ hist.pre.pending[th[p].hwid].device_name = Laptop
      /\ Field(th[p].body, "device_name") = LongName
      /\ db.activations[th[p].hwid].device_name = SubSeq(LongName, 1, 200)

====
